---------------------------- MODULE Spec2Model ----------------------------
(***************************************************************************)
(* A model of the k-armed bandit testbed (k_armed_bandit.py, strategy.py)  *)
(* and of the gridworld generator (gridworld.py).                          *)
(*                                                                         *)
(* Real numbers are fixed-point integers with three decimals: the value x  *)
(* is stored as x * Scale.  Arms are indexed 0..k-1 as in the source.      *)
(***************************************************************************)
EXTENDS Integers, Sequences, FiniteSets, TLC

VARIABLES
    \* --- one strategy object driven by arbitrary calls (SpecStrategy) ---
    strat,      \* the strategy instance (its fields)
    call,       \* the last method called on it: "init", "reset", "act", "update"
    ret,        \* the value the last act() returned (-1 before any act())
    \* --- simulate() (SpecSim) ---
    actions,    \* the arms: actions[a] is the mean of arm a
    best_action,
    strategies, \* the list of strategy instances handed to simulate()
    i, r, t,    \* the three loop indices
    pc,         \* position in simulate()
    action,     \* local: the arm act() returned
    reward,     \* local: the reward sampled
    rewards,
    best_action_choices,
    result,     \* the returned pair of mean matrices (None before return)
    draws,      \* how many times the list of arms has been constructed
    calls,      \* the calls made on the current strategy in the current trial
    \* --- Gridworld (SpecGrid) ---
    gw,         \* the constructed Gridworld (None before construction)
    cell,       \* the cell a transition starts from
    move,       \* <<intended action, slip label>> of the last transition
    next_cell   \* the cell the last transition ends in

varsStrategy == <<strat, call, ret>>
varsSim == <<actions, best_action, strategies, i, r, t, pc, action, reward,
             rewards, best_action_choices, result, draws, calls>>
varsGrid == <<gw, cell, move, next_cell>>
vars == <<varsStrategy, varsSim, varsGrid>>

---------------------------------------------------------------------------
(* Bounds of the model *)

K == 2          \* number of arms (10 in the source)
Runs == 2       \* simulate()'s runs
Time == 2       \* simulate()'s time
MaxT == 3       \* most update() calls between two reset() calls (SpecStrategy)

---------------------------------------------------------------------------
(* Fixed-point arithmetic *)

Scale == 10^3

\* Python's None, and the value of a variable that holds no object yet
None == [none |-> TRUE]

FP(n) == n * Scale

\* x / y on numbers; numpy yields inf/nan (no exception) for a zero divisor,
\* which is kept apart from every number the model computes with
Inf == 10^9

FDiv(x, y) == IF y = 0 THEN Inf ELSE x \div y

\* x * y on fixed-point numbers
FMul(x, y) == (x * y) \div Scale

Arms(k) == 0 .. (k - 1)

\* np.zeros(k)
zeros(k) == [a \in Arms(k) |-> 0]

\* np.max(x)
Max(x) == CHOOSE m \in {x[a] : a \in DOMAIN x} : \A a \in DOMAIN x : x[a] <= m

\* np.where(x == m)[0]
Where(x, m) == {a \in DOMAIN x : x[a] = m}

\* np.argmax(x): the first index of the maximum
argmax(x) == CHOOSE a \in Where(x, Max(x)) : \A b \in Where(x, Max(x)) : a <= b

RECURSIVE SumTo(_, _)
SumTo(x, n) == IF n < 0 THEN 0 ELSE x[n] + SumTo(x, n - 1)

\* sum(x) of an array indexed 0..k-1
Sum(x) == SumTo(x, Cardinality(DOMAIN x) - 1)

\* the integer square root, by bisection on lo..hi
RECURSIVE Bisect(_, _, _)
Bisect(v, lo, hi) ==
    IF lo >= hi THEN lo
    ELSE LET mid == (lo + hi + 1) \div 2
         IN IF mid * mid <= v THEN Bisect(v, mid, hi) ELSE Bisect(v, lo, mid - 1)

ISqrt(v) == Bisect(v, 0, 46340)

\* np.log(n) * Scale for n = 1..8
LnTable == <<0, 693, 1099, 1386, 1609, 1792, 1946, 2079>>

\* np.exp(x): the Taylor polynomial of degree 4, adequate for |x| < 1
Exp(x) ==
    LET t1 == x
        t2 == (t1 * x) \div (2 * Scale)
        t3 == (t2 * x) \div (3 * Scale)
        t4 == (t3 * x) \div (4 * Scale)
    IN Scale + t1 + t2 + t3 + t4

---------------------------------------------------------------------------
(* strategy.py: EpsilonGreedy *)

EGInit(k, epsilon, initial) ==
    [kind |-> "EpsilonGreedy", k |-> k, epsilon |-> epsilon, initial |-> initial,
     q_estimations |-> [a \in Arms(k) |-> zeros(k)[a] + initial],
     selections |-> zeros(k),
     indices |-> Arms(k)]

\* the arms act() may return when np.random.rand() yields u
EGActMutLe(s, u) ==
    IF u <= s.epsilon
    THEN s.indices
    ELSE Where(s.q_estimations, Max(s.q_estimations))

EGActMutMin(s, u) ==
    IF u < s.epsilon
    THEN s.indices
    ELSE {a \in s.indices : \A b \in s.indices : s.q_estimations[a] <= s.q_estimations[b]}

EGAct(s, u) ==
    IF u < s.epsilon
    THEN s.indices
    ELSE LET q_max == Max(s.q_estimations)
         IN Where(s.q_estimations, q_max)

\* the value of selections[action] that update() divides by
EGDivisorMut(s, a) == s.selections[a]

EGDivisor(s, a) == s.selections[a] + 1

EGUpdate(s, a, rw) ==
    LET s1 == [s EXCEPT !.selections[a] = EGDivisor(s, a)]
    IN [s1 EXCEPT !.q_estimations[a] = @ + FDiv(rw - @, s1.selections[a])]

EGReset(s) ==
    [s EXCEPT !.q_estimations = [a \in Arms(s.k) |-> zeros(s.k)[a] + s.initial],
              !.selections = zeros(s.k)]

---------------------------------------------------------------------------
(* strategy.py: UCB *)

UCBInit(k, c, initial) ==
    [kind |-> "UCB", k |-> k, c |-> c, initial |-> initial,
     q_estimations |-> [a \in Arms(k) |-> zeros(k)[a] + initial],
     selections |-> zeros(k),
     t |-> 0]

\* np.sqrt(np.log(t + 1) / (n + 1e-5)): the quotient is taken in units of
\* 1/1000, its root in units of 1/100
Bonus(tt, n) ==
    ISqrt(((LnTable[tt + 1] * 10^5) \div (n * 10^5 + 1)) * 10) * 10

UCB_estimations(s) ==
    [a \in Arms(s.k) |-> s.q_estimations[a] + FMul(s.c, Bonus(s.t, s.selections[a]))]

UCBAct(s) ==
    LET UCB_max == Max(UCB_estimations(s))
    IN Where(UCB_estimations(s), UCB_max)

UCBDivisor(s, a) == s.selections[a] + 1

UCBUpdate(s, a, rw) ==
    LET s1 == [s EXCEPT !.t = @ + 1, !.selections[a] = UCBDivisor(s, a)]
    IN [s1 EXCEPT !.q_estimations[a] = @ + FDiv(rw - @, s1.selections[a])]

UCBResetMut(s) ==
    [s EXCEPT !.q_estimations = [a \in Arms(s.k) |-> zeros(s.k)[a] + s.initial],
              !.selections = zeros(s.k)]

UCBReset(s) ==
    [s EXCEPT !.t = 0,
              !.q_estimations = [a \in Arms(s.k) |-> zeros(s.k)[a] + s.initial],
              !.selections = zeros(s.k)]

---------------------------------------------------------------------------
(* strategy.py: Gradient *)

GradInit(k, alpha) ==
    [kind |-> "Gradient", k |-> k, alpha |-> alpha,
     preferences |-> zeros(k),
     indices |-> Arms(k),
     baseline |-> 0,
     t |-> 0]

softmax(x) ==
    LET e == [a \in DOMAIN x |-> Exp(x[a])]
    IN [a \in DOMAIN x |-> FDiv(e[a] * Scale, Sum(e))]

\* np.random.choice(indices, p=...): any index of positive probability
GradAct(s) == {a \in s.indices : softmax(s.preferences)[a] > 0}

\* the value of t that update() divides by
GradDivisor(s) == s.t + 1

GradUpdate(s, a, rw) ==
    LET t1 == GradDivisor(s)
        b1 == s.baseline + FDiv(rw - s.baseline, t1)
        one_hot == [zeros(s.k) EXCEPT ![a] = FP(1)]
        sm == softmax(s.preferences)
    IN [s EXCEPT !.t = t1,
                 !.baseline = b1,
                 !.preferences = [j \in Arms(s.k) |->
                     s.preferences[j]
                       + FMul(FMul(s.alpha, rw - b1), one_hot[j] - sm[j])]]

GradReset(s) ==
    [s EXCEPT !.t = 0, !.baseline = 0, !.preferences = zeros(s.k)]

---------------------------------------------------------------------------
(* strategy.py: the Strategy interface, dispatched on the concrete class *)

Act(s, u) ==
    CASE s.kind = "EpsilonGreedy" -> EGAct(s, u)
      [] s.kind = "UCB" -> UCBAct(s)
      [] s.kind = "Gradient" -> GradAct(s)

Update(s, a, rw) ==
    CASE s.kind = "EpsilonGreedy" -> EGUpdate(s, a, rw)
      [] s.kind = "UCB" -> UCBUpdate(s, a, rw)
      [] s.kind = "Gradient" -> GradUpdate(s, a, rw)

Reset(s) ==
    CASE s.kind = "EpsilonGreedy" -> EGReset(s)
      [] s.kind = "UCB" -> UCBReset(s)
      [] s.kind = "Gradient" -> GradReset(s)

\* a new instance with the parameters of s
Fresh(s) ==
    CASE s.kind = "EpsilonGreedy" -> EGInit(s.k, s.epsilon, s.initial)
      [] s.kind = "UCB" -> UCBInit(s.k, s.c, s.initial)
      [] s.kind = "Gradient" -> GradInit(s.k, s.alpha)

\* the divisor update(a, .) uses in state s
Divisor(s, a) ==
    CASE s.kind = "EpsilonGreedy" -> EGDivisor(s, a)
      [] s.kind = "UCB" -> UCBDivisor(s, a)
      [] s.kind = "Gradient" -> GradDivisor(s)

\* the number of update() calls since the last reset()
Updates(s) ==
    IF s.kind = "EpsilonGreedy" THEN Sum(s.selections) ELSE s.t


---------------------------------------------------------------------------
(* Inputs *)

\* values of epsilon, initial, c and alpha the strategies are built with
Epsilons == {0, 100}
Initials == {0, FP(1)}
Cs == {0, FP(1), FP(2)}
Alphas == {100}

\* values np.random.rand() yields, in [0, 1)
Rand == {0, 50, 500}

\* rewards handed to update()
Rewards == {-FP(1), 0, FP(1)}

StrategyInputs ==
    {EGInit(K, e, q0) : e \in Epsilons, q0 \in Initials}
      \cup {UCBInit(K, c, q0) : c \in Cs, q0 \in Initials}
      \cup {GradInit(K, al) : al \in Alphas}

---------------------------------------------------------------------------
(* The variables of the parts a specification does not exercise *)

IdleStrategy == strat = None /\ call = "none" /\ ret = -1

IdleSim ==
    /\ actions = <<>> /\ best_action = -1 /\ strategies = <<>>
    /\ i = 0 /\ r = 0 /\ t = 0 /\ pc = "none" /\ action = -1 /\ reward = 0
    /\ rewards = <<>> /\ best_action_choices = <<>> /\ result = None
    /\ draws = 0 /\ calls = <<>>

IdleGrid == gw = None /\ cell = <<-1, -1>> /\ move = <<-1, "none">> /\ next_cell = <<-1, -1>>

---------------------------------------------------------------------------
(* SpecStrategy: one strategy instance under any sequence of calls *)

InitStrategy ==
    /\ strat \in StrategyInputs
    /\ call = "init"
    /\ ret = -1
    /\ IdleSim /\ IdleGrid

CallAct ==
    /\ \E u \in Rand : \E a \in Act(strat, u) : ret' = a
    /\ call' = "act"
    /\ UNCHANGED <<strat, varsSim, varsGrid>>

CallUpdate ==
    /\ Updates(strat) < MaxT
    /\ \E a \in Arms(strat.k), rw \in Rewards : strat' = Update(strat, a, rw)
    /\ call' = "update"
    /\ UNCHANGED <<ret, varsSim, varsGrid>>

CallReset ==
    /\ strat' = Reset(strat)
    /\ call' = "reset"
    /\ UNCHANGED <<ret, varsSim, varsGrid>>

NextStrategy == CallAct \/ CallUpdate \/ CallReset

SpecStrategy == InitStrategy /\ [][NextStrategy]_vars

---------------------------------------------------------------------------
(* k_armed_bandit.py: Action *)

\* values np.random.randn() yields
Randn == {FP(1)}

\* means np.random.randn() gives the arms
Means == {-FP(2), FP(1)}

\* Action(): the distribution defaults to the choice with p = [1, 0, 0]
ActionInit(mean) == [mean |-> mean, distribution |-> "normal"]

\* get_reward() when randn() yields z and rand() yields u
get_reward(arm, z, u) ==
    CASE arm.distribution = "normal" -> z + arm.mean
      [] arm.distribution = "uniform" -> u + arm.mean
      [] OTHER -> arm.mean

---------------------------------------------------------------------------
(* k_armed_bandit.py: simulate *)

\* the lists of strategies simulate() is called with
StrategyLists ==
    {<<EGInit(K, 0, 0), UCBInit(K, FP(2), 0)>>}

\* np.zeros((n, runs, time))
zeros3(n, runs, time) ==
    [ii \in 0 .. (n - 1) |-> [rr \in 0 .. (runs - 1) |-> [tt \in 0 .. (time - 1) |-> 0]]]

BestActionMut(arms) ==
    CHOOSE a \in DOMAIN arms : \A b \in DOMAIN arms : arms[a].mean <= arms[b].mean

\* np.argmax([action.mean for action in actions])
BestAction(arms) == argmax([a \in DOMAIN arms |-> arms[a].mean])

\* for t in range(time): whether a step follows step tt
MoreStepsMut(tt) == tt + 1 <= Time

MoreSteps(tt) == tt + 1 < Time

\* x.mean(axis=1) of an array of shape (n, runs, time)
MeanRuns(x) ==
    [ii \in DOMAIN x |->
        [tt \in 0 .. (Time - 1) |->
            FDiv(FP(Sum([rr \in DOMAIN x[ii] |-> x[ii][rr][tt]])), Cardinality(DOMAIN x[ii]))]]

InitSim ==
    /\ strategies \in StrategyLists
    /\ actions = <<>> /\ best_action = -1
    /\ i = 0 /\ r = 0 /\ t = 0
    /\ pc = "start"
    /\ action = -1 /\ reward = 0
    /\ rewards = <<>> /\ best_action_choices = <<>>
    /\ result = None
    /\ draws = 0 /\ calls = <<>>
    /\ IdleStrategy /\ IdleGrid

\* lines 26-30
SimStart ==
    /\ pc = "start"
    /\ \E m \in [Arms(K) -> Means] :
          /\ actions' = [a \in Arms(K) |-> ActionInit(m[a])]
          /\ best_action' = BestAction([a \in Arms(K) |-> ActionInit(m[a])])
    /\ draws' = draws + 1
    /\ rewards' = zeros3(Len(strategies), Runs, Time)
    /\ best_action_choices' = zeros3(Len(strategies), Runs, Time)
    /\ pc' = "reset"
    /\ UNCHANGED <<strategies, i, r, t, action, reward, result, calls,
                   varsStrategy, varsGrid>>

\* line 35
SimReset ==
    /\ pc = "reset"
    /\ strategies' = [strategies EXCEPT ![i + 1] = Reset(@)]
    /\ calls' = Append(calls, [op |-> "reset"])
    /\ t' = 0
    /\ pc' = "act"
    /\ UNCHANGED <<actions, best_action, i, r, action, reward, rewards,
                   best_action_choices, result, draws, varsStrategy, varsGrid>>

\* line 37
SimAct ==
    /\ pc = "act"
    /\ \E u \in Rand : \E a \in Act(strategies[i + 1], u) : action' = a
    /\ calls' = Append(calls, [op |-> "act", action |-> action'])
    /\ pc' = "reward"
    /\ UNCHANGED <<actions, best_action, strategies, i, r, t, reward, rewards,
                   best_action_choices, result, draws, varsStrategy, varsGrid>>

\* lines 38-39
SimReward ==
    /\ pc = "reward"
    /\ \E z \in Randn, u \in Rand : reward' = get_reward(actions[action], z, u)
    /\ rewards' = [rewards EXCEPT ![i][r][t] = reward']
    /\ pc' = "update"
    /\ UNCHANGED <<actions, best_action, strategies, i, r, t, action,
                   best_action_choices, result, draws, calls, varsStrategy, varsGrid>>

\* line 40
SimUpdate ==
    /\ pc = "update"
    /\ strategies' = [strategies EXCEPT ![i + 1] = Update(@, action, reward)]
    /\ calls' = Append(calls, [op |-> "update", action |-> action, reward |-> reward])
    /\ pc' = "mark"
    /\ UNCHANGED <<actions, best_action, i, r, t, action, reward, rewards,
                   best_action_choices, result, draws, varsStrategy, varsGrid>>

\* lines 42-43, and line 36 for the next step
SimMark ==
    /\ pc = "mark"
    /\ best_action_choices' =
          IF action = best_action
          THEN [best_action_choices EXCEPT ![i][r][t] = 1]
          ELSE best_action_choices
    /\ IF MoreSteps(t)
       THEN t' = t + 1 /\ pc' = "act"
       ELSE t' = t /\ pc' = "next_run"
    /\ UNCHANGED <<actions, best_action, strategies, i, r, action, reward, rewards,
                   result, draws, calls, varsStrategy, varsGrid>>

\* lines 34 and 32: the trial is over; the next trial, the next strategy, or the end
SimNextRun ==
    /\ pc = "next_run"
    /\ calls' = <<>>
    /\ IF r + 1 < Runs
       THEN r' = r + 1 /\ i' = i /\ pc' = "reset"
       ELSE IF i + 1 < Len(strategies)
            THEN r' = 0 /\ i' = i + 1 /\ pc' = "reset"
            ELSE r' = r /\ i' = i /\ pc' = "mean"
    /\ UNCHANGED <<actions, best_action, strategies, t, action, reward, rewards,
                   best_action_choices, result, draws, varsStrategy, varsGrid>>

\* lines 45-48
SimReturn ==
    /\ pc = "mean"
    /\ result' = [mean_rewards |-> MeanRuns(rewards),
                  mean_best_action_choices |-> MeanRuns(best_action_choices)]
    /\ pc' = "done"
    /\ UNCHANGED <<actions, best_action, strategies, i, r, t, action, reward, rewards,
                   best_action_choices, draws, calls, varsStrategy, varsGrid>>

NextSim ==
    \/ SimStart \/ SimReset \/ SimAct \/ SimReward \/ SimUpdate
    \/ SimMark \/ SimNextRun \/ SimReturn

SpecSim == InitSim /\ [][NextSim]_vars

---------------------------------------------------------------------------
(* gridworld.py: Gridworld.__init__ *)

\* the shapes of the grids a Gridworld is built on
GridShapes == {<<1, 1>>, <<1, 2>>, <<2, 1>>, <<2, 2>>, <<1, 3>>, <<3, 1>>}

\* state types: free, terminal, blocked
Free == 0
Terminal == 1
Blocked == 2

Cells(shape) == (0 .. (shape[1] - 1)) \X (0 .. (shape[2] - 1))

\* the state_types arrays
Grids ==
    UNION {{[shape |-> sh, types |-> ty] : ty \in [Cells(sh) -> {Free, Terminal, Blocked}]} :
           sh \in GridShapes}

\* probabilities a caller puts in the slip dictionary
Probs == {0, 100, 500}

\* the slip argument: None, or a dictionary with left, right and backward
SlipInputs ==
    {None} \cup [left : Probs, right : Probs, backward : Probs]

\* the rewards array: 1 on terminal cells
RewardsOf(g) == [c \in Cells(g.shape) |-> IF g.types[c] = Terminal THEN FP(1) ELSE 0]

GridworldInit(state_types, rewards_in, slip_in, gamma, step_reward) ==
    [state_types |-> state_types,
     rewards |-> rewards_in,
     slip |-> IF slip_in = None
              THEN [left |-> 0, right |-> 0, backward |-> 0, forward |-> FP(1)]
              ELSE [left |-> slip_in.left, right |-> slip_in.right,
                    backward |-> slip_in.backward,
                    forward |-> FP(1) - slip_in.left - slip_in.right - slip_in.backward],
     gamma |-> gamma,
     step_reward |-> step_reward,
     q_table |-> [c \in Cells(state_types.shape) |-> [a \in 0 .. 3 |-> 0]]]

---------------------------------------------------------------------------
(* The transition model *)

SlipLabels == {"forward", "right", "backward", "left"}

\* the offset a slip adds to the intended action, on the cycle
\* forward, right, backward, left
Offset(label) ==
    CASE label = "forward" -> 0
      [] label = "right" -> 1
      [] label = "backward" -> 2
      [] label = "left" -> 3

ActualDirection(a, label) == (a + Offset(label)) % 4

\* the unit vector <<row, column>> of a direction: 0 up, 1 right, 2 down, 3 left
UnitVector(d) ==
    CASE d = 0 -> <<-1, 0>>
      [] d = 1 -> <<0, 1>>
      [] d = 2 -> <<1, 0>>
      [] d = 3 -> <<0, -1>>

Clamp(v, lo, hi) == IF v < lo THEN lo ELSE IF v > hi THEN hi ELSE v

\* the cell the move aims at, clamped to the grid
Target(g, c, d) ==
    <<Clamp(c[1] + UnitVector(d)[1], 0, g.shape[1] - 1),
      Clamp(c[2] + UnitVector(d)[2], 0, g.shape[2] - 1)>>

NextCellMut(g, c, a, label) == Target(g, c, ActualDirection(a, label))

NextCell(g, c, a, label) ==
    LET target == Target(g, c, ActualDirection(a, label))
    IN IF g.types[target] = Blocked THEN c ELSE target

---------------------------------------------------------------------------
(* SpecGrid: a Gridworld is constructed, then the solver evaluates transitions *)

InitGrid ==
    /\ gw = None /\ cell = <<-1, -1>> /\ move = <<-1, "none">> /\ next_cell = <<-1, -1>>
    /\ IdleStrategy /\ IdleSim

Construct ==
    /\ gw = None
    /\ \E g \in Grids, sl \in SlipInputs :
          gw' = GridworldInit(g, RewardsOf(g), sl, FP(1), -10)
    /\ UNCHANGED <<cell, move, next_cell, varsStrategy, varsSim>>

\* one slip outcome of one action from one free cell
Transition ==
    /\ gw # None
    /\ \E c \in Cells(gw.state_types.shape), a \in 0 .. 3, label \in SlipLabels :
          /\ gw.state_types.types[c] = Free
          /\ gw.slip[label] # 0
          /\ cell' = c
          /\ move' = <<a, label>>
          /\ next_cell' = NextCell(gw.state_types, c, a, label)
    /\ UNCHANGED <<gw, varsStrategy, varsSim>>

NextGrid == Construct \/ Transition

SpecGrid == InitGrid /\ [][NextGrid]_vars

---------------------------------------------------------------------------
(* Claims about simulate(), under SpecSim *)

InTrial == pc \in {"act", "reward", "update", "mark"}

\* C1: every trial of simulate() uses arms drawn for that trial: while trial r
\* of strategy i runs, the list of arms has been constructed once per trial
\* started so far, this one included.
C1_FreshArmsPerTrial == InTrial => draws = i * Runs + r + 1

\* the calls of a trial: reset(), then act() and update() in turn, update()
\* with the arm the act() before it returned and the reward sampled from
\* that arm and stored in rewards
CallsInOrder ==
    \A n \in 1 .. Len(calls) :
        /\ n = 1 => calls[n].op = "reset"
        /\ (n > 1 /\ n % 2 = 0) => calls[n].op = "act" /\ calls[n].action \in Arms(K)
        /\ (n > 1 /\ n % 2 = 1) =>
              /\ calls[n].op = "update"
              /\ calls[n].action = calls[n - 1].action
              /\ calls[n].reward = rewards[i][r][(n - 3) \div 2]
              /\ calls[n].reward - actions[calls[n].action].mean \in Randn

\* C2: in every trial reset() is called once, before the first act(); the
\* trial has exactly Time steps, each one act(), one sample of the arm that
\* act() returned, and one update() with that arm and that reward.
C2_TrialProtocol ==
    /\ CallsInOrder
    /\ Len(calls) <= 1 + 2 * Time
    /\ pc \in {"start", "reset", "mean", "done"} => calls = <<>>
    /\ pc = "act" => Len(calls) = 1 + 2 * t
    /\ pc \in {"reward", "update"} => Len(calls) = 2 + 2 * t
    /\ pc = "mark" => Len(calls) = 3 + 2 * t
    /\ pc = "next_run" => Len(calls) = 1 + 2 * Time

C2_Witness ==
    /\ pc = "next_run" /\ i = 1 /\ r = Runs - 1
    /\ Len(calls) = 1 + 2 * Time
    /\ calls[2].action # calls[4].action

\* the entries of a matrix of shape (strategies, Time) lie in lo..hi
MatrixIn(m, lo, hi) ==
    /\ DOMAIN m = 0 .. (Len(strategies) - 1)
    /\ \A ii \in DOMAIN m :
          /\ DOMAIN m[ii] = 0 .. (Time - 1)
          /\ \A tt \in DOMAIN m[ii] : lo <= m[ii][tt] /\ m[ii][tt] <= hi

\* C8: the entry of best_action_choices for a step is 1 exactly when the arm
\* act() chose is the argmax of the arms' means (no other entry changes, and
\* the entries start at 0); the returned matrices have shape
\* (strategies, Time) and every entry of the optimal-action curve is in [0, 1].
C8_OptimalChoice ==
    /\ [][pc = "mark" =>
            best_action_choices' =
              [best_action_choices EXCEPT ![i][r][t] =
                 IF \A b \in Arms(K) :
                        /\ actions[b].mean <= actions[action].mean
                        /\ (actions[b].mean = actions[action].mean => action <= b)
                 THEN 1 ELSE 0]]_vars
    /\ [][pc \notin {"mark", "start"} => UNCHANGED best_action_choices]_vars
    /\ [][pc = "start" =>
            best_action_choices' = zeros3(Len(strategies), Runs, Time)]_vars
    /\ [](pc = "done" =>
            /\ MatrixIn(result.mean_best_action_choices, 0, FP(1))
            /\ MatrixIn(result.mean_rewards, -Inf + 1, Inf - 1))

C8_Witness ==
    /\ pc = "done"
    /\ \E ii \in 0 .. (Len(strategies) - 1), tt \in 0 .. (Time - 1) :
          /\ result.mean_best_action_choices[ii][tt] > 0
          /\ result.mean_best_action_choices[ii][tt] < FP(1)

---------------------------------------------------------------------------
(* Claims about the strategies, under SpecStrategy *)

\* C3: reset() leaves the strategy as a newly constructed instance with the
\* parameters it had before the call, whatever was called before.
C3_ResetIsFresh == [][call' = "reset" => strat' = Fresh(strat)]_vars

C3_Witness ==
    /\ call = "reset" /\ ret >= 0
    /\ strat.kind = "UCB" /\ strat.t = 0 /\ strat.initial = FP(1)

IsGreedy == strat.kind = "EpsilonGreedy" /\ strat.epsilon = 0

\* C4: with epsilon = 0, act() returns an arm whose estimate is the maximum.
C4_GreedyReturnsMax ==
    (IsGreedy /\ call = "act") =>
        \A b \in Arms(strat.k) : strat.q_estimations[b] <= strat.q_estimations[ret]

C4_Witness ==
    /\ IsGreedy /\ call = "act"
    /\ \E b \in Arms(strat.k) : strat.q_estimations[b] < strat.q_estimations[ret]
    /\ strat.q_estimations[ret] < 0

\* C5, as stated: with epsilon = 0 and exactly one estimate that is not 0,
\* act() returns the arm of that estimate.
C5_Original ==
    (IsGreedy /\ call = "act") =>
        \A a \in Arms(strat.k) :
            (/\ strat.q_estimations[a] # 0
             /\ \A b \in Arms(strat.k) \ {a} : strat.q_estimations[b] = 0)
            => ret = a

\* C5, amended: with epsilon = 0 and exactly one estimate greater than 0, all
\* others 0, act() returns the arm of that estimate.
C5_SinglePositive ==
    (IsGreedy /\ call = "act") =>
        \A a \in Arms(strat.k) :
            (/\ strat.q_estimations[a] > 0
             /\ \A b \in Arms(strat.k) \ {a} : strat.q_estimations[b] = 0)
            => ret = a

C5_Witness ==
    /\ IsGreedy /\ call = "act"
    /\ strat.q_estimations[ret] > 0 /\ strat.q_estimations[ret] < FP(1)
    /\ \A b \in Arms(strat.k) \ {ret} : strat.q_estimations[b] = 0

\* C6: while each of the first steps after reset() has selected another arm
\* and fewer than k steps are done, UCB's act() returns an arm with no
\* selection yet: the first k steps select each arm once.
C6_FirstStepsVisitAll ==
    (/\ strat.kind = "UCB" /\ call = "act"
     /\ strat.t < strat.k
     /\ \A a \in Arms(strat.k) : strat.selections[a] <= 1)
    => strat.selections[ret] = 0

\* C7: the divisor of every update() is at least 1, and no estimate or
\* baseline is the result of a division by zero.
C7_DivisorPositive ==
    /\ \A a \in Arms(strat.k) : Divisor(strat, a) >= 1
    /\ strat.kind \in {"EpsilonGreedy", "UCB"} =>
          \A a \in Arms(strat.k) : strat.q_estimations[a] < Inf \div 2
    /\ strat.kind = "Gradient" => strat.baseline < Inf \div 2

C7_Witness ==
    /\ call = "update" /\ ret >= 0
    /\ strat.kind = "Gradient" /\ strat.t = 1 /\ strat.baseline = FP(1)

---------------------------------------------------------------------------
(* Claims about the gridworld, under SpecGrid *)

\* C9: a constructed Gridworld has four slip probabilities in [0, 1] that
\* sum to 1, forward being 1 - left - right - backward; a slip argument
\* with left + right + backward > 1 yields no Gridworld.
C9_SlipValidated ==
    gw # None =>
        /\ \A label \in SlipLabels : 0 <= gw.slip[label] /\ gw.slip[label] <= FP(1)
        /\ gw.slip.forward = FP(1) - gw.slip.left - gw.slip.right - gw.slip.backward

Moved == move[1] >= 0

\* the cell the move aims at before clamping
RawTarget == <<cell[1] + UnitVector(ActualDirection(move[1], move[2]))[1],
               cell[2] + UnitVector(ActualDirection(move[1], move[2]))[2]>>

=============================================================================
